---- MODULE Spec2Model ----
(***************************************************************************)
(* The hybrid recommendation pipeline of backend/core: Recommender         *)
(* (recommender.py) over SemanticSearch (semantic_search.py), the Neo4j    *)
(* expansion and TMDBService (tmdb_service.py).                            *)
(*                                                                         *)
(* One request is modelled call by call: every external call (vector       *)
(* search, one graph traversal per seed, the provider lookups of one       *)
(* candidate) is one action, and what the external service answers is the  *)
(* action's nondeterministic input.                                        *)
(*                                                                         *)
(* Specifications: Spec (one recommend call), SpecEnrich and SpecStable    *)
(* (enrich_movies on its own, once and twice), SpecEither (Spec or         *)
(* SpecEnrich), SpecTrending (get_trending_movies), SpecIndex and          *)
(* SpecIndexFair (index_movies), SpecStore (SemanticSearch.__init__ and    *)
(* upserts), SpecRequests (two recommend calls on one Recommender) and     *)
(* SpecGraph (_expand_via_neo4j against Neo4j).                            *)
(***************************************************************************)
EXTENDS Integers, Sequences, FiniteSets, TLC

\* ------------------------------------------------------------------ bounds
\* Largest vector_limit and graph_limit a request is issued with (the most
\* seeds one request expands, the most rows one traversal yields), and the
\* longest list handed to enrich_movies on its own.
MaxVector == 2
MaxGraph == 2
MaxMovies == 2

\* ------------------------------------------------------------------ values
\* Python's None, and a dict key that is not there at all.
NoneVal == "None"
Absent == "absent"

\* `if x` on a title, an id, a path: None and "" are falsy.
Truthy(x) == x \notin {NoneVal, ""}

\* score: None, among scores kept in units of 10^-4.
NoScore == -99999

\* SemanticSearch.search: one dict per hit, payload fields plus float(score);
\* the score is in units of 10^-5.
Hit(t, g, d, y, s) == [title |-> t, genre |-> g, director |-> d, year |-> y, score |-> s]

\* The points a search can return: two of them share a title, one has a
\* payload without title.
Hits ==
  { Hit("Inception", "Sci-Fi", "Nolan", "2010", 91006),
    Hit("Interstellar", "Sci-Fi; Drama", "Nolan", "2014.0", 87004),
    Hit("Inception", "Drama", "Other", "1999", 87004),
    Hit(NoneVal, "Drama", NoneVal, NoneVal, 12346) }

\* The rows of the Cypher query: title, genre, year.
Row(t, g, y) == [title |-> t, genre |-> g, year |-> y]

\* The rows a traversal can return: a title the vector stage also finds, two
\* movies sharing a title, and a node whose title is empty.
Rows ==
  { Row("Inception", "Sci-Fi", "2010"),
    Row("Tenet", "Action", "2020"),
    Row("Tenet", "Drama", NoneVal),
    Row("", "Drama", NoneVal) }

\* All sequences over S of length at most n without a repeated element (the
\* index returns each point once, RETURN DISTINCT each row once).
InjSeqsUpTo(S, n) ==
  UNION { { f \in [1..m -> S] : \A i, j \in 1..m : f[i] = f[j] => i = j } : m \in 0..n }

\* All sequences over S of length at most n.
SeqsUpTo(S, n) == UNION { [1..m -> S] : m \in 0..n }

\* What one session.run can do: yield at most `limit` rows, or raise, at once
\* or after it has yielded a row.
GraphResponses(limit) ==
  { [raised |-> TRUE, rows |-> r] : r \in InjSeqsUpTo({Row("Tenet", "Action", "2020")}, 1) }
    \cup { [raised |-> FALSE, rows |-> r] : r \in InjSeqsUpTo(Rows, limit) }

\* ------------------------------------------------------------ pure helpers
\* round(x, 4): x in units of 10^-5, the result in units of 10^-4,
\* ties to the even neighbour.
Round4(x) ==
  LET q == x \div 10
      r == x % 10
  IN  IF r > 5 \/ (r = 5 /\ q % 2 = 1) THEN q + 1 ELSE q

\* Recommender._search_qdrant: re-format the hits of SemanticSearch.search.
SearchQdrant(hits) ==
  [i \in 1..Len(hits) |->
     [title |-> hits[i].title, genre |-> hits[i].genre,
      director |-> hits[i].director, year |-> hits[i].year,
      score |-> Round4(hits[i].score), source |-> "vector",
      poster_url |-> Absent, imdb_url |-> Absent]]

\* Slips of _expand_via_neo4j: the rows read before the failure are kept;
\* the rows are tagged as vector results.
ExpandViaNeo4jKeepsPartial(resp) ==
  [i \in 1..Len(resp.rows) |->
     [title |-> resp.rows[i].title, genre |-> resp.rows[i].genre,
      director |-> Absent, year |-> resp.rows[i].year,
      score |-> NoScore, source |-> "graph",
      poster_url |-> Absent, imdb_url |-> Absent]]

ExpandViaNeo4jAsVector(resp) ==
  IF resp.raised THEN << >>
  ELSE [i \in 1..Len(resp.rows) |->
          [title |-> resp.rows[i].title, genre |-> resp.rows[i].genre,
           director |-> Absent, year |-> resp.rows[i].year,
           score |-> NoScore, source |-> "vector",
           poster_url |-> Absent, imdb_url |-> Absent]]

\* Recommender._expand_via_neo4j: the rows as candidates, [] when the
\* traversal raised.
ExpandViaNeo4j(resp) ==
  IF resp.raised THEN << >>
  ELSE [i \in 1..Len(resp.rows) |->
          [title |-> resp.rows[i].title, genre |-> resp.rows[i].genre,
           director |-> Absent, year |-> resp.rows[i].year,
           score |-> NoScore, source |-> "graph",
           poster_url |-> Absent, imdb_url |-> Absent]]

\* Slips of the dedup test: the seen check forgotten; the seen check inverted.
AdmitUnseenUnchecked(movie, seen) == Truthy(movie.title)
AdmitOnlySeen(movie, seen) == Truthy(movie.title) /\ movie.title \in seen

\* A slip of the dedup test: the title is tested against None only, so an
\* empty title passes.
AdmitEmptyTitle(movie, seen) == movie.title # NoneVal /\ movie.title \notin seen

\* The test of the two dedup loops of recommend.
Admit(movie, seen) == Truthy(movie.title) /\ movie.title \notin seen

\* A slip of the dedup loop: a title seen again replaces the entry it had.
RECURSIVE MergeLastWins(_, _, _)
MergeLastWins(seen, comb, ms) ==
  IF ms = << >> THEN [seen |-> seen, combined |-> comb]
  ELSE LET movie == Head(ms)
       IN  IF ~Truthy(movie.title) THEN MergeLastWins(seen, comb, Tail(ms))
           ELSE IF movie.title \notin seen
           THEN MergeLastWins(seen \cup {movie.title}, Append(comb, movie), Tail(ms))
           ELSE MergeLastWins(seen,
                  [i \in 1..Len(comb) |->
                     IF comb[i].title = movie.title THEN movie ELSE comb[i]],
                  Tail(ms))

\* One dedup loop of recommend: append each movie of `ms` whose title is
\* usable and not yet seen; returns the new seen_titles and combined.
RECURSIVE Merge(_, _, _)
Merge(seen, comb, ms) ==
  IF ms = << >> THEN [seen |-> seen, combined |-> comb]
  ELSE LET movie == Head(ms)
       IN  IF Admit(movie, seen)
           THEN Merge(seen \cup {movie.title}, Append(comb, movie), Tail(ms))
           ELSE Merge(seen, comb, Tail(ms))

\* A slip of the early return: the test for no vector result left out.
NoSeedsUnchecked(vr) == FALSE

\* `if not vector_results`: nothing to expand, recommend returns [].
NoSeeds(vr) == vr = << >>

\* A slip of the expansion loop: every vector result is expanded.
IsSeedUnchecked(vector_movie) == TRUE

\* The guard of the expansion loop: a vector result without title is skipped.
IsSeed(vector_movie) == Truthy(vector_movie.title)

\* ------------------------------------------------------- metadata provider
\* f"{self.poster_base_url}{poster_path}" and f"{self.imdb_base_url}{imdb_id}".
PosterUrl(poster_path) ==
  CASE poster_path = "/inception.jpg" -> "https://image.tmdb.org/t/p/w500/inception.jpg"
    [] OTHER -> "https://image.tmdb.org/t/p/w500"

ImdbUrl(imdb_id) ==
  CASE imdb_id = "tt1375666" -> "https://www.imdb.com/title/tt1375666"
    [] OTHER -> "https://www.imdb.com/title/"

\* What the provider does for one movie: `status` is what GET /search/movie
\* does (raise; answer without results; answer with a first result carrying
\* poster_path and id), `details` what GET /movie/{id} does when it is called
\* (raise, or answer) and imdb_id what it answers.
Answer(st, p, i, d, im) ==
  [status |-> st, poster_path |-> p, id |-> i, details |-> d, imdb_id |-> im]

ProviderAnswers ==
  { Answer("error", NoneVal, NoneVal, "ok", NoneVal),
    Answer("empty", NoneVal, NoneVal, "ok", NoneVal) }
    \cup { Answer("match", p, NoneVal, "ok", NoneVal) : p \in {"/inception.jpg", NoneVal} }
    \cup { Answer("match", p, "27205", "error", NoneVal) : p \in {"/inception.jpg", NoneVal} }
    \cup { Answer("match", p, "27205", "ok", im) :
             p \in {"/inception.jpg", NoneVal}, im \in {"tt1375666", NoneVal} }

\* TMDBService._search_movie: whether it returns a first result (else None).
SearchMovie(key, ans) == key /\ ans.status = "match"

\* TMDBService._get_imdb_id: the imdb_id, or None.
GetImdbId(key, tmdb_id, ans) ==
  IF ~key \/ ~Truthy(tmdb_id) THEN NoneVal
  ELSE IF ans.details = "ok" THEN ans.imdb_id ELSE NoneVal

\* HTTP calls the body of the enrich_movies loop makes for one movie.
LookupCalls(key, ans) ==
  (IF key THEN 1 ELSE 0)
    + (IF SearchMovie(key, ans) /\ Truthy(ans.id) THEN 1 ELSE 0)

\* A slip of the loop body: without a match the movie is left as it came.
EnrichMovieOnlyOnMatch(key, movie, ans) ==
  IF SearchMovie(key, ans)
  THEN LET imdb_id == GetImdbId(key, ans.id, ans)
       IN  [movie EXCEPT
              !.poster_url = IF Truthy(ans.poster_path)
                             THEN PosterUrl(ans.poster_path) ELSE NoneVal,
              !.imdb_url = IF Truthy(imdb_id) THEN ImdbUrl(imdb_id) ELSE NoneVal]
  ELSE movie

\* A slip of the loop body: a movie the provider matched is tagged as
\* coming from the provider.
EnrichMovieRetagsSource(key, movie, ans) ==
  IF SearchMovie(key, ans)
  THEN LET imdb_id == GetImdbId(key, ans.id, ans)
       IN  [movie EXCEPT
              !.source = "tmdb",
              !.poster_url = IF Truthy(ans.poster_path)
                             THEN PosterUrl(ans.poster_path) ELSE NoneVal,
              !.imdb_url = IF Truthy(imdb_id) THEN ImdbUrl(imdb_id) ELSE NoneVal]
  ELSE [movie EXCEPT !.poster_url = NoneVal, !.imdb_url = NoneVal]

\* The body of the enrich_movies loop: the movie with both keys set.
EnrichMovie(key, movie, ans) ==
  IF SearchMovie(key, ans)
  THEN LET imdb_id == GetImdbId(key, ans.id, ans)
       IN  [movie EXCEPT
              !.poster_url = IF Truthy(ans.poster_path)
                             THEN PosterUrl(ans.poster_path) ELSE NoneVal,
              !.imdb_url = IF Truthy(imdb_id) THEN ImdbUrl(imdb_id) ELSE NoneVal]
  ELSE [movie EXCEPT !.poster_url = NoneVal, !.imdb_url = NoneVal]

\* A slip of the loop: only the movies the provider matched are appended.
RECURSIVE EnrichLoopKeepsMatches(_, _, _, _)
EnrichLoopKeepsMatches(key, ms, answers, acc) ==
  IF ms = << >> THEN acc
  ELSE EnrichLoopKeepsMatches(key, Tail(ms), Tail(answers),
         IF SearchMovie(key, Head(answers))
         THEN Append(acc, EnrichMovie(key, Head(ms), Head(answers)))
         ELSE acc)

\* A slip of the loop: a movie that already carries a poster_url key is
\* taken as done and left out of the list.
RECURSIVE EnrichLoopSkipsEnriched(_, _, _, _)
EnrichLoopSkipsEnriched(key, ms, answers, acc) ==
  IF ms = << >> THEN acc
  ELSE EnrichLoopSkipsEnriched(key, Tail(ms), Tail(answers),
         IF Head(ms).poster_url # Absent THEN acc
         ELSE Append(acc, EnrichMovie(key, Head(ms), Head(answers))))

\* The loop of enrich_movies over ms, the provider answering the lookups of
\* the i-th movie with answers[i]; `acc` is enriched_movies so far.
RECURSIVE EnrichLoop(_, _, _, _)
EnrichLoop(key, ms, answers, acc) ==
  IF ms = << >> THEN acc
  ELSE EnrichLoop(key, Tail(ms), Tail(answers),
                  Append(acc, EnrichMovie(key, Head(ms), Head(answers))))

\* A slip of enrich_movies: the check of the API key is missing.
EnrichMoviesWithoutKeyCheck(key, ms, answers) ==
  EnrichLoop(key, ms, answers, << >>)

\* TMDBService.enrich_movies: the list it returns.
EnrichMovies(key, ms, answers) ==
  IF ~key THEN ms ELSE EnrichLoop(key, ms, answers, << >>)

\* HTTP calls one enrich_movies call makes.
RECURSIVE EnrichCalls(_, _, _)
EnrichCalls(key, ms, answers) ==
  IF ~key \/ ms = << >> THEN 0
  ELSE LookupCalls(key, Head(answers)) + EnrichCalls(key, Tail(ms), Tail(answers))

\* Providers a request can meet: what each answers for a title.
ProviderA(t) ==
  CASE t = "Inception" -> Answer("match", "/inception.jpg", "27205", "ok", "tt1375666")
    [] t = "Interstellar" -> Answer("match", NoneVal, "27205", "error", NoneVal)
    [] OTHER -> Answer("empty", NoneVal, NoneVal, "ok", NoneVal)

ProviderB(t) ==
  CASE t = "Inception" -> Answer("error", NoneVal, NoneVal, "ok", NoneVal)
    [] t = "Interstellar" -> Answer("match", "/inception.jpg", NoneVal, "ok", NoneVal)
    [] OTHER -> Answer("match", "/inception.jpg", "27205", "ok", NoneVal)

Providers == {"A", "B"}

\* The answers provider w gives for the movies of ms, one after the other.
AnswersOf(w, ms) ==
  [i \in 1..Len(ms) |-> IF w = "A" THEN ProviderA(ms[i].title) ELSE ProviderB(ms[i].title)]

\* ------------------------------------------------------------------- state
VARIABLES
  pc,              \* where the call is: start, expand, enrich, done, raised
  api_key,         \* TMDBService.api_key is set
  vector_limit,    \* the request's vector_limit
  graph_limit,     \* the request's graph_limit
  vector_results,  \* recommend: vector_results
  seen_titles,     \* recommend: seen_titles
  combined,        \* recommend: combined (its dicts are updated in place by enrich_movies)
  idx,             \* position of the expansion loop in vector_results
  result,          \* what the call returned (meaningful once pc = "done")
  search_calls,    \* history: vector searches issued
  expansions,      \* history: per vector result, the traversal issued and its answer
  enrich_calls,    \* history: calls of enrich_movies
  enrich_arg,      \* history: the list the enrich_movies call received
  provider_answers,\* history: what the provider did for each movie of that list
  tmdb_calls,      \* history: HTTP calls made to the metadata provider
  vector_failed,   \* history: the vector stage raised
  stable_provider, \* a provider that answers a lookup the same way every time
  trending_limit,  \* get_trending_movies: limit
  trending_feed,   \* what the provider's trending endpoint answered
  movies,          \* index_movies: movies
  points,          \* index_movies: points
  batch_start,     \* index_movies: i, the offset of the current batch
  attempt,         \* index_movies: attempt
  index_log,       \* history: upserts, sleeps and skips of index_movies, in order
  collection_exists,\* the vector store has a collection of the configured name
  stored_points,   \* the points of that collection
  creations,       \* history: recreate_collection calls
  constructions,   \* history: SemanticSearch objects constructed
  reqs,            \* the local variables of each concurrent recommend call
  graph,           \* the contents of the knowledge graph
  seed_title       \* _expand_via_neo4j: title

\* The variables of get_trending_movies, of index_movies, of the vector
\* store, of concurrent requests and of the graph traversal.
trendVars == << trending_limit, trending_feed >>
indexVars == << movies, points, batch_start, attempt, index_log >>
storeVars == << collection_exists, stored_points, creations, constructions >>
graphVars == << graph, seed_title >>
extVars == << stable_provider, trendVars, indexVars, storeVars, reqs, graphVars >>

vars ==
  << pc, api_key, vector_limit, graph_limit, vector_results, seen_titles,
     combined, idx, result, search_calls, expansions, enrich_calls,
     enrich_arg, provider_answers, tmdb_calls, vector_failed, extVars >>

\* The parts of the state an operation does not use, at rest.
StableIdle == stable_provider = << >>
TrendIdle == trending_limit = 0 /\ trending_feed = << >>
IndexIdle ==
  /\ movies = << >>
  /\ points = << >>
  /\ batch_start = 0
  /\ attempt = 0
  /\ index_log = << >>
StoreIdle ==
  /\ collection_exists = FALSE
  /\ stored_points = {}
  /\ creations = 0
  /\ constructions = 0
ConcIdle == reqs = << >>
GraphIdle == graph = << >> /\ seed_title = ""
ExtIdle == StableIdle /\ TrendIdle /\ IndexIdle /\ StoreIdle /\ ConcIdle /\ GraphIdle

\* A Recommender has been constructed and one recommend call is about to run.
Init ==
  /\ pc = "start"
  /\ api_key \in BOOLEAN
  /\ vector_limit \in 1..MaxVector
  /\ graph_limit \in 1..MaxGraph
  /\ vector_results = << >>
  /\ seen_titles = {}
  /\ combined = << >>
  /\ idx = 1
  /\ result = << >>
  /\ search_calls = 0
  /\ expansions = << >>
  /\ enrich_calls = 0
  /\ enrich_arg = << >>
  /\ provider_answers = << >>
  /\ tmdb_calls = 0
  /\ vector_failed = FALSE
  /\ ExtIdle

\* ----------------------------------------------------------------- actions
\* recommend, steps 1 and 2: the vector search answers with `hits`; an empty
\* answer returns [], otherwise the hits seed combined.
Search ==
  /\ pc = "start"
  /\ \E hits \in InjSeqsUpTo(Hits, vector_limit) :
       LET vr == SearchQdrant(hits)
           m == Merge({}, << >>, vr)
       IN  /\ vector_results' = vr
           /\ IF NoSeeds(vr)
              THEN /\ pc' = "done"
                   /\ result' = << >>
                   /\ UNCHANGED << seen_titles, combined >>
              ELSE /\ pc' = "expand"
                   /\ seen_titles' = m.seen
                   /\ combined' = m.combined
                   /\ UNCHANGED result
  /\ search_calls' = search_calls + 1
  /\ UNCHANGED << api_key, vector_limit, graph_limit, idx, expansions,
                  enrich_calls, enrich_arg, provider_answers,
                  tmdb_calls, vector_failed, extVars >>

\* A slip of recommend: the failure of the vector stage is caught and the
\* call goes on as if the search had found nothing.
SearchRaisesSwallowed ==
  /\ pc = "start"
  /\ pc' = "done"
  /\ vector_failed' = TRUE
  /\ search_calls' = search_calls + 1
  /\ UNCHANGED << api_key, vector_limit, graph_limit, vector_results,
                  seen_titles, combined, idx, result, expansions,
                  enrich_calls, enrich_arg, provider_answers,
                  tmdb_calls, extVars >>

\* recommend, step 1: the embedding or the vector-index call raises; nothing
\* in recommend catches it.
SearchRaises ==
  /\ pc = "start"
  /\ pc' = "raised"
  /\ vector_failed' = TRUE
  /\ search_calls' = search_calls + 1
  /\ UNCHANGED << api_key, vector_limit, graph_limit, vector_results,
                  seen_titles, combined, idx, result, expansions,
                  enrich_calls, enrich_arg, provider_answers,
                  tmdb_calls, extVars >>

\* A slip of the expansion loop: it stops one vector result early.
MoreSeedsButLast == idx <= Len(vector_results) - 1

\* The expansion loop has a vector result left.
MoreSeeds == idx <= Len(vector_results)

\* recommend, step 3: one turn of the loop over vector_results.
Expand ==
  /\ pc = "expand"
  /\ MoreSeeds
  /\ LET vector_movie == vector_results[idx]
     IN  IF ~IsSeed(vector_movie)
         THEN /\ expansions' = Append(expansions,
                   [called |-> FALSE, title |-> vector_movie.title, limit |-> 0,
                    raised |-> FALSE, graph_results |-> << >>])
              /\ UNCHANGED << seen_titles, combined >>
         ELSE \E resp \in GraphResponses(graph_limit) :
                LET graph_results == ExpandViaNeo4j(resp)
                    m == Merge(seen_titles, combined, graph_results)
                IN  /\ expansions' = Append(expansions,
                         [called |-> TRUE, title |-> vector_movie.title,
                          limit |-> graph_limit, raised |-> resp.raised,
                          graph_results |-> graph_results])
                    /\ seen_titles' = m.seen
                    /\ combined' = m.combined
  /\ idx' = idx + 1
  /\ UNCHANGED << pc, api_key, vector_limit, graph_limit, vector_results,
                  result, search_calls, enrich_calls, enrich_arg, provider_answers,
                  tmdb_calls, vector_failed, extVars >>

\* recommend, step 4 and the return: combined is handed to enrich_movies,
\* the provider being w, and what enrich_movies returns is returned.
Enrich ==
  /\ pc = "expand"
  /\ ~MoreSeeds
  /\ \E w \in Providers :
       LET answers == AnswersOf(w, combined)
           enriched_results == EnrichMovies(api_key, combined, answers)
       IN  /\ result' = enriched_results
           /\ combined' = enriched_results
           /\ tmdb_calls' = tmdb_calls + EnrichCalls(api_key, combined, answers)
           /\ provider_answers' = IF api_key THEN answers ELSE << >>
  /\ enrich_calls' = enrich_calls + 1
  /\ enrich_arg' = combined
  /\ pc' = "done"
  /\ UNCHANGED << api_key, vector_limit, graph_limit, vector_results,
                  seen_titles, idx, search_calls, expansions,
                  vector_failed, extVars >>

Next ==
  \/ Search
  \/ SearchRaises
  \/ Expand
  \/ Enrich

Spec == Init /\ [][Next]_vars

\* ------------------------------------------- enrich_movies called on its own
\* The candidates a caller can hand to enrich_movies: fresh from either
\* stage, already enriched, with no title, with no year.
Candidate(t, y, sc, src, p, im) ==
  [title |-> t, genre |-> "Drama", director |-> Absent, year |-> y,
   score |-> sc, source |-> src, poster_url |-> p, imdb_url |-> im]

Candidates ==
  { Candidate("Inception", "2010", 9101, "vector", Absent, Absent),
    Candidate("Tenet", NoneVal, NoScore, "graph", Absent, Absent),
    Candidate("Interstellar", "2014.0", 8700, "vector",
              "https://image.tmdb.org/t/p/w500/inception.jpg", NoneVal),
    Candidate(NoneVal, NoneVal, NoScore, "graph", NoneVal, Absent) }

InitEnrich ==
  /\ pc = "enrich"
  /\ api_key \in BOOLEAN
  /\ combined \in SeqsUpTo(Candidates, MaxMovies)
  /\ vector_limit = 1
  /\ graph_limit = 1
  /\ vector_results = << >>
  /\ seen_titles = {}
  /\ idx = 1
  /\ result = << >>
  /\ search_calls = 0
  /\ expansions = << >>
  /\ enrich_calls = 0
  /\ enrich_arg = << >>
  /\ provider_answers = << >>
  /\ tmdb_calls = 0
  /\ vector_failed = FALSE
  /\ ExtIdle

\* One call enrich_movies(combined), the provider answering the lookups of
\* the i-th movie with answers[i].
EnrichAlone ==
  /\ pc = "enrich"
  /\ \E answers \in [1..Len(combined) -> ProviderAnswers] :
       LET enriched_results == EnrichMovies(api_key, combined, answers)
       IN  /\ result' = enriched_results
           /\ combined' = enriched_results
           /\ tmdb_calls' = tmdb_calls + EnrichCalls(api_key, combined, answers)
           /\ provider_answers' = IF api_key THEN answers ELSE << >>
  /\ enrich_calls' = enrich_calls + 1
  /\ enrich_arg' = combined
  /\ pc' = "done"
  /\ UNCHANGED << api_key, vector_limit, graph_limit, vector_results,
                  seen_titles, idx, search_calls, expansions,
                  vector_failed, extVars >>

NextEnrich == EnrichAlone

SpecEnrich == InitEnrich /\ [][NextEnrich]_vars

TypeOK ==
  /\ pc \in {"start", "expand", "enrich", "done", "raised",
             "first", "second", "trending", "index", "batch", "upsert",
             "sleep", "indexed", "store", "serving", "traverse"}
  /\ idx \in 1..(MaxVector + 1)

\* ------------------------------------------------------- derived histories
\* The titles of a candidate list, in order.
TitlesOf(ms) == [i \in 1..Len(ms) |-> ms[i].title]

\* The vector results that were expanded, and the traversals issued.
Seeds == SelectSeq(vector_results, LAMBDA v : Truthy(v.title))
IsCalled(e) == e.called
GraphCalls == SelectSeq(expansions, IsCalled)

\* What the stages produced, in discovery order: the vector results, then
\* what each traversal returned, seed after seed.
RECURSIVE Flatten(_)
Flatten(es) == IF es = << >> THEN << >> ELSE Head(es).graph_results \o Flatten(Tail(es))

Discovered == vector_results \o Flatten(expansions)

\* s without every element whose title occurs earlier in s.
FirstOccurrences(s) ==
  LET keep == { i \in 1..Len(s) : \A j \in 1..(i - 1) : s[j].title # s[i].title }
      RECURSIVE Pick(_)
      Pick(i) == IF i > Len(s) THEN << >>
                 ELSE IF i \in keep THEN << s[i] >> \o Pick(i + 1) ELSE Pick(i + 1)
  IN  Pick(1)

\* s without the elements that have no usable title.
HasTitle(c) == c.title # NoneVal /\ c.title # ""
Titled(s) == SelectSeq(s, HasTitle)

Returned == pc = "done"

\* -------------------------------------------------------------------- C1
\* C1: the list recommend returns holds no two candidates with the same
\* title, whatever the vector stage and the traversals returned.
C1_NoDuplicateTitles ==
  Returned =>
    \A i, j \in 1..Len(result) : result[i].title = result[j].title => i = j

\* A request whose stages repeated a title (twice among the vector results,
\* twice in one traversal, and between the vector and the graph results)
\* has returned.
C1_Witness ==
  /\ Returned
  /\ Len(vector_results) = 2
  /\ vector_results[1].title = vector_results[2].title
  /\ \E i \in 1..Len(expansions) :
       LET g == expansions[i].graph_results
       IN  /\ Len(g) = 2
           /\ g[1].title = g[2].title
  /\ \E i \in 1..Len(expansions) :
       \E n \in 1..Len(expansions[i].graph_results) :
         expansions[i].graph_results[n].title = vector_results[1].title
  /\ Len(result) = 2

\* -------------------------------------------------------------------- C2
\* C2 as stated: whenever the vector stage returned at least one result, the
\* list recommend returns is not empty.
C2_NonEmptyForAnyHits ==
  (Returned /\ vector_results # << >>) => result # << >>

\* C2 amended: whenever the vector stage returned at least one result with a
\* usable (non-null, non-empty) title, the list recommend returns is not
\* empty.
C2_NonEmptyForTitledHits ==
  (Returned /\ Seeds # << >>) => result # << >>

\* A request whose vector stage returned a hit without title and a hit with
\* one has returned a list.
C2_Witness ==
  /\ Returned
  /\ Len(vector_results) = 2
  /\ ~HasTitle(vector_results[1])
  /\ HasTitle(vector_results[2])
  /\ Len(result) >= 1

\* -------------------------------------------------------------------- C3
\* C3: when the vector stage returns nothing, recommend returns [] and has
\* issued no graph traversal, no enrich_movies call and no provider lookup.
C3_EmptyVectorShortCircuits ==
  (pc # "start" /\ pc # "raised" /\ vector_results = << >>) =>
    /\ Returned
    /\ result = << >>
    /\ expansions = << >>
    /\ enrich_calls = 0
    /\ tmdb_calls = 0

\* The vector search was issued, answered with no hit, and the call is over.
C3_Witness ==
  /\ Returned
  /\ search_calls = 1
  /\ vector_results = << >>
  /\ api_key

\* -------------------------------------------------------------------- C4
\* C4 as stated: the list handed to enrich_movies is the vector results
\* followed by what each traversal returned, seed after seed, keeping the
\* first occurrence of each title.
C4_HandsReference ==
  enrich_calls = 1 => enrich_arg = FirstOccurrences(Discovered)

\* C4 amended: the list handed to enrich_movies is the vector results
\* followed by what each traversal returned, seed after seed, without the
\* entries that have no usable title, keeping the first occurrence of each
\* title; so every vector-origin candidate precedes every graph-origin one.
C4_HandsTitledReference ==
  enrich_calls = 1 =>
    /\ enrich_arg = FirstOccurrences(Titled(Discovered))
    /\ \A i, j \in 1..Len(enrich_arg) :
         (enrich_arg[i].source = "vector" /\ enrich_arg[j].source = "graph") => i < j

\* Vector [Inception, Interstellar], Inception expands to [Tenet] and
\* Interstellar to [Inception]: [Inception, Interstellar, Tenet] is handed on.
C4_Witness ==
  /\ enrich_calls = 1
  /\ TitlesOf(vector_results) = << "Inception", "Interstellar" >>
  /\ Len(expansions) = 2
  /\ TitlesOf(expansions[1].graph_results) = << "Tenet" >>
  /\ TitlesOf(expansions[2].graph_results) = << "Inception" >>
  /\ TitlesOf(enrich_arg) = << "Inception", "Interstellar", "Tenet" >>

\* -------------------------------------------------------------------- C5
\* C5: a traversal that raises contributes no candidate, the request does not
\* raise because of it and goes on after it (to the next vector result or to
\* enrich_movies), and once the request has returned every seed (failed ones
\* and the seeds after them) has had its traversal, the candidates of the
\* traversals that answered are merged as usual, and enrich_movies has run.
C5_GraphFailureIsLocal ==
  /\ \A i \in 1..Len(expansions) :
       expansions[i].raised => expansions[i].graph_results = << >>
  /\ pc = "raised" => expansions = << >>
  /\ (pc = "expand" /\ expansions # << >> /\ expansions[Len(expansions)].raised) =>
       ENABLED (Expand \/ Enrich)
  /\ (Returned /\ vector_results # << >>) =>
       /\ Len(GraphCalls) = Len(Seeds)
       /\ enrich_calls = 1
       /\ TitlesOf(result) = TitlesOf(FirstOccurrences(Titled(Discovered)))

\* The traversal of the first seed raised, the traversal of the second seed
\* answered and its row is in the returned list.
C5_Witness ==
  /\ Returned
  /\ Len(expansions) = 2
  /\ expansions[1].called /\ expansions[1].raised
  /\ expansions[2].called /\ ~expansions[2].raised
  /\ Len(expansions[2].graph_results) = 1
  /\ Len(result) = 3
  /\ result[3].source = "graph"

\* -------------------------------------------------------------------- C6
\* C6: in a returned list a candidate that came from a traversal has no score
\* and source "graph", a candidate that came from the vector stage has a
\* score and source "vector", and a title both stages found is returned with
\* the source and score of the vector stage.
C6_ScoreAndSourceByOrigin ==
  /\ \A i \in 1..Len(vector_results) :
       vector_results[i].source = "vector" /\ vector_results[i].score # NoScore
  /\ \A i \in 1..Len(expansions) : \A n \in 1..Len(expansions[i].graph_results) :
       LET g == expansions[i].graph_results[n]
       IN  g.source = "graph" /\ g.score = NoScore
  /\ Returned =>
       \A i \in 1..Len(result) :
         LET r == result[i]
             fromVector == { n \in 1..Len(vector_results) : vector_results[n].title = r.title }
         IN  IF fromVector # {}
             THEN LET first == CHOOSE n \in fromVector : \A m \in fromVector : n <= m
                  IN  r.source = "vector" /\ r.score = vector_results[first].score
             ELSE r.source = "graph" /\ r.score = NoScore

\* A returned list holds a vector candidate whose title a traversal found
\* too, and a candidate only a traversal found.
C6_Witness ==
  /\ Returned
  /\ \E i \in 1..Len(expansions) : \E n \in 1..Len(expansions[i].graph_results) :
       expansions[i].graph_results[n].title = result[1].title
  /\ result[1].source = "vector"
  /\ \E i \in 1..Len(result) : result[i].source = "graph"

\* -------------------------------------------------------------------- C7
\* C7 as stated: a request whose vector stage returned n >= 1 results has
\* issued exactly n traversals, the i-th keyed by the title of the i-th
\* result and asking for at most graph_limit items.
C7_OneTraversalPerResult ==
  (Returned /\ vector_results # << >>) =>
    /\ Len(GraphCalls) = Len(vector_results)
    /\ \A i \in 1..Len(GraphCalls) :
         /\ i <= Len(vector_results) => GraphCalls[i].title = vector_results[i].title
         /\ GraphCalls[i].limit <= graph_limit

\* C7 amended: a request whose vector stage returned n >= 1 results has
\* issued exactly one traversal for each result that has a usable title, in
\* rank order, keyed by that title and asking for graph_limit items, and none
\* for a result without title (so at most n traversals).
C7_OneTraversalPerTitledResult ==
  (Returned /\ vector_results # << >>) =>
    /\ Len(expansions) = Len(vector_results)
    /\ \A i \in 1..Len(expansions) :
         /\ expansions[i].called = HasTitle(vector_results[i])
         /\ expansions[i].called =>
              /\ expansions[i].title = vector_results[i].title
              /\ expansions[i].limit = graph_limit
    /\ Len(GraphCalls) = Len(Titled(vector_results))

\* Two vector results with the same title were both expanded, with
\* graph_limit = 2.
C7_Witness ==
  /\ Returned
  /\ graph_limit = 2
  /\ Len(vector_results) = 2
  /\ vector_results[1].title = vector_results[2].title
  /\ Len(GraphCalls) = 2
  /\ GraphCalls[1].title = "Inception"

\* -------------------------------------------------------------------- C8
\* C8: the stages run in order and never go back: a traversal is issued only
\* after the one vector search; enrich_movies is called once, after the
\* traversal of the last vector result, with the whole deduplicated list;
\* once it has been called no search and no traversal is issued; and a
\* request with a non-empty vector result returns only through it.
C8_StagesInOrder ==
  [][ /\ expansions' # expansions =>
           /\ search_calls = 1 /\ search_calls' = 1
           /\ enrich_calls = 0 /\ enrich_calls' = 0
      /\ enrich_calls' # enrich_calls =>
           /\ enrich_calls = 0 /\ enrich_calls' = 1
           /\ search_calls = 1
           /\ Len(expansions) = Len(vector_results)
           /\ expansions' = expansions
           /\ enrich_arg' = combined
           /\ TitlesOf(combined) = TitlesOf(FirstOccurrences(Titled(Discovered)))
      /\ enrich_calls >= 1 =>
           /\ search_calls' = search_calls
           /\ expansions' = expansions
           /\ enrich_calls' = enrich_calls
      /\ (pc # "done" /\ pc' = "done" /\ vector_results' # << >>) =>
           enrich_calls' = 1 /\ enrich_calls = 0
      /\ search_calls' # search_calls => (pc = "start" /\ search_calls = 0)
    ]_vars

\* A request with two expanded seeds has gone through enrich_movies and
\* returned.
C8_Witness ==
  /\ Returned
  /\ Len(GraphCalls) = 2
  /\ enrich_calls = 1
  /\ Len(enrich_arg) = 3

\* -------------------------------------------------------------------- C9
\* C9: enrich_movies returns a list as long as the list it received, whose
\* i-th element has the title of the i-th element received, for every input
\* list and whatever the provider does, with or without a key.
C9_EnrichKeepsLengthAndOrder ==
  Returned =>
    /\ Len(result) = Len(enrich_arg)
    /\ \A i \in 1..Len(result) : result[i].title = enrich_arg[i].title

\* With a key, a list of a candidate without title and an already enriched
\* one came back, the provider having failed on the first and matched the
\* second.
C9_Witness ==
  /\ Returned
  /\ api_key
  /\ Len(enrich_arg) = 2
  /\ enrich_arg[1].title = NoneVal
  /\ enrich_arg[2].poster_url # Absent
  /\ provider_answers[1].status = "error"
  /\ provider_answers[2].status = "match"
  /\ Len(result) = 2

\* ------------------------------------------------------------------- C10
\* C10: with a key, every candidate enrich_movies returns has poster_url and
\* imdb_url set: to the resolved URL when the lookup matched and the poster
\* path (for imdb_url: the id, the details call and its imdb_id) was there,
\* to None on every other path; and no provider answer keeps enrich_movies
\* from returning.
C10_BothFieldsAlwaysSet ==
  /\ pc = "enrich" => ENABLED EnrichAlone
  /\ (Returned /\ api_key) =>
       \A i \in 1..Len(result) :
         LET a == provider_answers[i]
             matched == a.status = "match"
             poster == matched /\ a.poster_path # NoneVal
             link == /\ matched
                     /\ a.id # NoneVal
                     /\ a.details = "ok"
                     /\ a.imdb_id # NoneVal
         IN  /\ result[i].poster_url # Absent
             /\ result[i].imdb_url # Absent
             /\ result[i].poster_url = IF poster THEN PosterUrl(a.poster_path) ELSE NoneVal
             /\ result[i].imdb_url = IF link THEN ImdbUrl(a.imdb_id) ELSE NoneVal

\* With a key, two fresh candidates came back: the lookup of the first
\* raised, the lookup of the second matched without poster and its details
\* call raised.
C10_Witness ==
  /\ Returned
  /\ api_key
  /\ Len(enrich_arg) = 2
  /\ enrich_arg[1].poster_url = Absent /\ enrich_arg[1].imdb_url = Absent
  /\ enrich_arg[2].poster_url = Absent /\ enrich_arg[2].imdb_url = Absent
  /\ provider_answers[1].status = "error"
  /\ provider_answers[2].status = "match"
  /\ provider_answers[2].poster_path = NoneVal
  /\ provider_answers[2].details = "error"
  /\ result[1].poster_url = NoneVal /\ result[1].imdb_url = NoneVal
  /\ result[2].poster_url = NoneVal /\ result[2].imdb_url = NoneVal

\* ------------------------------ the pipeline and enrich_movies on its own
\* Either one recommend call runs, or enrich_movies is called on a list of
\* the caller's.
InitEither == Init \/ InitEnrich

NextEither == Next \/ NextEnrich

SpecEither == InitEither /\ [][NextEither]_vars

\* ---------------------------------------------------------------- C11
\* C11: without an API key enrich_movies returns the list it was given,
\* the same candidates in the same order with every key, poster_url and
\* imdb_url included, as it came (a key missing stays missing), and no call
\* goes to the provider; recommend then returns the deduplicated list of
\* what the vector and graph stages found.
C11_NoKeyEnrichIsIdentity ==
  (Returned /\ ~api_key /\ enrich_calls = 1) =>
     /\ result = enrich_arg
     /\ tmdb_calls = 0
     /\ provider_answers = << >>
     /\ search_calls = 1 => result = FirstOccurrences(Titled(Discovered))

\* Without a key a recommend call returned a vector and a graph candidate,
\* neither with a poster_url or imdb_url key, after a traversal had also
\* found a title a second time.
C11_Witness ==
  /\ Returned
  /\ ~api_key
  /\ enrich_calls = 1
  /\ search_calls = 1
  /\ Len(result) = 2
  /\ result[1].source = "vector"
  /\ result[2].source = "graph"
  /\ \A i \in 1..2 : result[i].poster_url = Absent /\ result[i].imdb_url = Absent
  /\ Len(Discovered) > 2

\* ------------------------------------ enrich_movies under a stable provider
\* _search_movie: the year parameter of the request, str(year).split(".")[0],
\* left out when year is falsy.
YearParam(year) ==
  IF ~Truthy(year) THEN Absent
  ELSE IF year = "2014.0" THEN "2014" ELSE year

\* The search request enrich_movies sends for a movie.
Request(movie) == << movie.title, YearParam(movie.year) >>

RequestsOf(ms) == { Request(ms[i]) : i \in 1..Len(ms) }

\* What a stable provider answers for each movie of ms.
StableAnswers(ms) == [i \in 1..Len(ms) |-> stable_provider[Request(ms[i])]]

\* A list of the caller's and a provider that answers each request of the
\* list in one fixed way.
InitStable ==
  /\ pc = "first"
  /\ api_key \in BOOLEAN
  /\ combined \in SeqsUpTo(Candidates, MaxMovies)
  /\ stable_provider \in [RequestsOf(combined) -> ProviderAnswers]
  /\ vector_limit = 1
  /\ graph_limit = 1
  /\ vector_results = << >>
  /\ seen_titles = {}
  /\ idx = 1
  /\ result = << >>
  /\ search_calls = 0
  /\ expansions = << >>
  /\ enrich_calls = 0
  /\ enrich_arg = << >>
  /\ provider_answers = << >>
  /\ tmdb_calls = 0
  /\ vector_failed = FALSE
  /\ TrendIdle /\ IndexIdle /\ StoreIdle /\ ConcIdle /\ GraphIdle

\* enrich_movies(combined), first on the caller's list, then on what the
\* first call returned.
EnrichStable ==
  /\ pc \in {"first", "second"}
  /\ LET answers == StableAnswers(combined)
         enriched_results == EnrichMovies(api_key, combined, answers)
     IN  /\ result' = enriched_results
         /\ combined' = enriched_results
         /\ tmdb_calls' = tmdb_calls + EnrichCalls(api_key, combined, answers)
         /\ provider_answers' = IF api_key THEN answers ELSE << >>
  /\ enrich_calls' = enrich_calls + 1
  /\ enrich_arg' = combined
  /\ pc' = IF pc = "first" THEN "second" ELSE "done"
  /\ UNCHANGED << api_key, vector_limit, graph_limit, vector_results,
                  seen_titles, idx, search_calls, expansions,
                  vector_failed, extVars >>

NextStable == EnrichStable

SpecStable == InitStable /\ [][NextStable]_vars

\* ---------------------------------------------------------------- C12
\* C12: under a provider that answers every lookup of a title and year, and
\* every link resolution, the same way each time, enriching the list that
\* enrich_movies returned gives that list again, field by field.
C12_EnrichIdempotent ==
  (enrich_calls = 2) => result = enrich_arg

\* With a key, a list of a fresh and an already enriched candidate was
\* enriched twice: the first came back with poster and link, the second
\* with neither, its lookup having failed.
C12_Witness ==
  /\ pc = "done"
  /\ enrich_calls = 2
  /\ api_key
  /\ Len(result) = 2
  /\ result[1].title = "Inception"
  /\ result[1].poster_url = PosterUrl("/inception.jpg")
  /\ result[1].imdb_url = ImdbUrl("tt1375666")
  /\ result[2].title = "Interstellar"
  /\ result[2].poster_url = NoneVal
  /\ provider_answers[2].status = "error"

\* ------------------------------------------------------ get_trending_movies
MaxTrending == 2

\* An entry of the provider's trending list, with what its details call
\* would answer.  vote_average is in tenths; NoScore stands for a missing one.
TrendingEntry(i, t, p, rd, va, d, im) ==
  [id |-> i, title |-> t, poster_path |-> p, release_date |-> rd,
   vote_average |-> va, details |-> d, imdb_id |-> im]

TrendingEntries ==
  { TrendingEntry("27205", "Inception", "/inception.jpg", "2010-07-16", 83,
                  "ok", "tt1375666"),
    TrendingEntry("157336", "Interstellar", NoneVal, Absent, NoScore,
                  "error", NoneVal),
    TrendingEntry(NoneVal, "Dune", "/inception.jpg", "", 0, "ok", NoneVal),
    TrendingEntry("329", "Jurassic Park", NoneVal, NoneVal, 79,
                  "ok", "tt0107290") }

\* What the trending endpoint answers: an error, or a list of entries that
\* may be longer than the limit.
TrendingFeeds ==
  { [status |-> "error", results |-> << >>] }
    \cup { [status |-> "ok", results |-> r] :
             r \in InjSeqsUpTo(TrendingEntries, MaxTrending + 1) }

\* movie.get("release_date", "N/A").split("-")[0]
ReleaseYear(release_date) ==
  CASE release_date = Absent -> "N/A"
    [] release_date = "2010-07-16" -> "2010"
    [] OTHER -> release_date

\* The dict get_trending_movies appends for one entry.
TrendingMovie(key, movie) ==
  LET imdb_id == GetImdbId(key, movie.id, movie)
  IN  [title |-> movie.title,
       genre |-> "Trending",
       year |-> ReleaseYear(movie.release_date),
       score |-> movie.vote_average,
       source |-> "trending",
       poster_url |-> IF Truthy(movie.poster_path)
                      THEN PosterUrl(movie.poster_path) ELSE NoneVal,
       imdb_url |-> IF Truthy(imdb_id) THEN ImdbUrl(imdb_id) ELSE NoneVal]

\* tmdb_results[:limit], for a limit that is not negative.
Slice(s, limit) == SubSeq(s, 1, IF limit < Len(s) THEN limit ELSE Len(s))

\* The loop raises on an entry whose release_date is null: None has no split.
TrendingLoopRaises(entries) ==
  \E i \in 1..Len(entries) : entries[i].release_date = NoneVal

\* TMDBService.get_trending_movies: the list it returns.
GetTrendingMovies(key, limit, feed) ==
  IF ~key THEN << >>
  ELSE IF feed.status # "ok" THEN << >>
  ELSE LET entries == Slice(feed.results, limit)
       IN  IF TrendingLoopRaises(entries) THEN << >>
           ELSE [i \in 1..Len(entries) |-> TrendingMovie(key, entries[i])]

\* HTTP calls of one get_trending_movies call: the trending request, then
\* a details request per entry with an id, up to the entry that raises.
RECURSIVE TrendingDetailCalls(_)
TrendingDetailCalls(entries) ==
  IF entries = << >> THEN 0
  ELSE (IF Truthy(Head(entries).id) THEN 1 ELSE 0)
         + (IF Head(entries).release_date = NoneVal THEN 0
            ELSE TrendingDetailCalls(Tail(entries)))

TrendingCalls(key, limit, feed) ==
  IF ~key THEN 0
  ELSE IF feed.status # "ok" THEN 1
  ELSE 1 + TrendingDetailCalls(Slice(feed.results, limit))

\* A TMDBService has been constructed and get_trending_movies(limit) is
\* about to run.
InitTrending ==
  /\ pc = "trending"
  /\ api_key \in BOOLEAN
  /\ trending_limit \in 0..MaxTrending
  /\ trending_feed = << >>
  /\ vector_limit = 1
  /\ graph_limit = 1
  /\ vector_results = << >>
  /\ seen_titles = {}
  /\ combined = << >>
  /\ idx = 1
  /\ result = << >>
  /\ search_calls = 0
  /\ expansions = << >>
  /\ enrich_calls = 0
  /\ enrich_arg = << >>
  /\ provider_answers = << >>
  /\ tmdb_calls = 0
  /\ vector_failed = FALSE
  /\ StableIdle /\ IndexIdle /\ StoreIdle /\ ConcIdle /\ GraphIdle

\* One call get_trending_movies(trending_limit), the provider answering
\* with feed.
Trending ==
  /\ pc = "trending"
  /\ \E feed \in TrendingFeeds :
       /\ trending_feed' = feed
       /\ result' = GetTrendingMovies(api_key, trending_limit, feed)
       /\ tmdb_calls' = tmdb_calls + TrendingCalls(api_key, trending_limit, feed)
  /\ pc' = "done"
  /\ UNCHANGED << api_key, trending_limit, vector_limit, graph_limit,
                  vector_results, seen_titles, combined, idx, search_calls,
                  expansions, enrich_calls, enrich_arg, provider_answers,
                  vector_failed, stable_provider, indexVars, storeVars,
                  reqs, graphVars >>

NextTrending == Trending

SpecTrending == InitTrending /\ [][NextTrending]_vars

\* The entries of the feed that a call with this limit reads.
TrendingRead == Slice(trending_feed.results, trending_limit)

\* ---------------------------------------------------------------- C13
\* C13: get_trending_movies(limit) returns at most limit candidates, in
\* the provider's order, each with source "trending" and with no score.
\* The code gives each candidate the provider's vote_average as score.
C13_TrendingHasNoScore ==
  (pc = "done") =>
     /\ Len(result) <= trending_limit
     /\ \/ result = << >>
        \/ /\ Len(result) = Len(TrendingRead)
           /\ \A i \in 1..Len(result) : result[i].title = TrendingRead[i].title
     /\ \A i \in 1..Len(result) :
          result[i].source = "trending" /\ result[i].score = NoScore

\* With a key and limit 2 the provider listed three entries; the first two
\* came back in its order, one with its rating of 8.3 as score, one with
\* no score because the provider gave no rating.
C13_Witness ==
  /\ pc = "done"
  /\ api_key
  /\ trending_limit = 2
  /\ Len(trending_feed.results) = 3
  /\ Len(result) = 2
  /\ result[1].title = "Inception" /\ result[1].score = 83
  /\ result[2].title = "Interstellar" /\ result[2].score = NoScore
  /\ result[1].source = "trending" /\ result[2].source = "trending"

\* ---------------------------------------------------------------- C14
\* C14: when the vector stage raises, recommend raises: it returns no list,
\* issues no graph traversal and does not call enrich_movies, and nothing
\* more happens in the call.  No other stage makes recommend raise: a call
\* that raised is one whose vector stage raised, and a call in which a
\* traversal or a provider lookup failed still returns.
C14_OnlyVectorFailureFails ==
  /\ vector_failed =>
       /\ pc = "raised"
       /\ result = << >>
       /\ expansions = << >>
       /\ enrich_calls = 0
       /\ tmdb_calls = 0
       /\ ~ENABLED Next
  /\ pc = "raised" => vector_failed
  /\ (\E i \in 1..Len(expansions) : expansions[i].raised) => pc \in {"expand", "done"}
  /\ (\E i \in 1..Len(provider_answers) :
         provider_answers[i].status = "error" \/ provider_answers[i].details = "error")
       => Returned

\* The vector stage raised in the one search of the call.
C14_Witness ==
  /\ pc = "raised"
  /\ vector_failed
  /\ search_calls = 1
  /\ seen_titles = {}

\* ------------------------------------------------------------ index_movies
MaxItems == 101

\* index_movies: batch_size, and the attempts the while loop allows.
batch_size == 50
RetryLimit == 3

\* Which movies of the input carry plot text: all, none, or all but every
\* third, whose plot is in turn empty and missing.
PlotPatterns == {"all", "gaps", "none"}

PlotOf(pattern, i) ==
  CASE pattern = "all" -> "A thief enters dreams."
    [] pattern = "none" -> ""
    [] OTHER -> IF i % 3 # 0 THEN "A thief enters dreams."
                ELSE IF i % 2 = 0 THEN "" ELSE NoneVal

\* The movies handed to index_movies: n of them, with ids 1..n.
MoviesOf(n, pattern) == [i \in 1..n |-> [id |-> i, plot |-> PlotOf(pattern, i)]]

\* index_movies, the loop over movies: the ids of the points it builds.
HasPlot(m) == Truthy(m.plot)
PointsOf(ms) ==
  LET with_plot == SelectSeq(ms, HasPlot)
  IN  [i \in 1..Len(with_plot) |-> with_plot[i].id]

\* A slip of the slice: a batch runs one point into the next batch.
BatchAtOverlapping(ps, i) ==
  SubSeq(ps, i + 1, IF i + batch_size + 1 < Len(ps) THEN i + batch_size + 1 ELSE Len(ps))

\* points[i:i + batch_size]
BatchAt(ps, i) ==
  SubSeq(ps, i + 1, IF i + batch_size < Len(ps) THEN i + batch_size ELSE Len(ps))

\* A slip of the while loop: one attempt too many.
RetryAllowedOnceMore(n) == n <= RetryLimit

\* while attempt < 3
RetryAllowed(n) == n < RetryLimit

\* A slip of the loop: a skipped batch ends the upload.
AfterSkipGiveUp(i) == Len(points)

\* The offset the for loop goes on with after the else branch of the while
\* loop has skipped the batch at offset i.
AfterSkip(i) == i + batch_size

\* An entry of the history of index_movies.
IndexEvent(k, i, b, n, o) ==
  [kind |-> k, start |-> i, batch |-> b, attempt |-> n, ok |-> o]

\* A SemanticSearch has been constructed, its collection exists, and
\* index_movies(movies) is about to run.
InitIndex ==
  /\ pc = "index"
  /\ \E n \in 0..MaxItems, pattern \in PlotPatterns : movies = MoviesOf(n, pattern)
  /\ points = << >>
  /\ batch_start = 0
  /\ attempt = 0
  /\ index_log = << >>
  /\ collection_exists = TRUE
  /\ stored_points = {}
  /\ creations = 1
  /\ constructions = 1
  /\ api_key = FALSE
  /\ vector_limit = 1
  /\ graph_limit = 1
  /\ vector_results = << >>
  /\ seen_titles = {}
  /\ combined = << >>
  /\ idx = 1
  /\ result = << >>
  /\ search_calls = 0
  /\ expansions = << >>
  /\ enrich_calls = 0
  /\ enrich_arg = << >>
  /\ provider_answers = << >>
  /\ tmdb_calls = 0
  /\ vector_failed = FALSE
  /\ StableIdle /\ TrendIdle /\ ConcIdle /\ GraphIdle

\* What index_movies never touches.
indexFrame ==
  << api_key, vector_limit, graph_limit, vector_results, seen_titles,
     combined, idx, result, search_calls, expansions, enrich_calls,
     enrich_arg, provider_answers, tmdb_calls, vector_failed,
     stable_provider, trendVars, reqs, graphVars, movies,
     collection_exists, creations, constructions >>

\* index_movies: the loop that builds points from the movies with a plot.
BuildPoints ==
  /\ pc = "index"
  /\ points' = PointsOf(movies)
  /\ batch_start' = 0
  /\ pc' = "batch"
  /\ UNCHANGED << attempt, index_log, stored_points, indexFrame >>

\* for i in range(0, len(points), batch_size): the next batch begins.
NextBatch ==
  /\ pc = "batch"
  /\ batch_start < Len(points)
  /\ attempt' = 0
  /\ pc' = "upsert"
  /\ UNCHANGED << points, batch_start, index_log, stored_points, indexFrame >>

\* The for loop is exhausted: index_movies returns.
FinishIndex ==
  /\ pc = "batch"
  /\ batch_start >= Len(points)
  /\ pc' = "indexed"
  /\ UNCHANGED << points, batch_start, attempt, index_log, stored_points, indexFrame >>

\* One turn of the while loop: client.upsert of the batch succeeds, which
\* breaks out of the loop, or raises, which counts the attempt.
Upsert ==
  /\ pc = "upsert"
  /\ LET batch == BatchAt(points, batch_start)
     IN  \E ok \in BOOLEAN :
           /\ index_log' = Append(index_log,
                 IndexEvent("upsert", batch_start, batch, attempt, ok))
           /\ IF ok
              THEN /\ stored_points' = stored_points \cup { batch[j] : j \in 1..Len(batch) }
                   /\ batch_start' = batch_start + batch_size
                   /\ pc' = "batch"
                   /\ UNCHANGED attempt
              ELSE /\ attempt' = attempt + 1
                   /\ pc' = "sleep"
                   /\ UNCHANGED << stored_points, batch_start >>
  /\ UNCHANGED << points, indexFrame >>

\* The except branch ends with time.sleep(3); then the while test either
\* lets the loop try again or, through the else branch, skips the batch.
Sleep ==
  /\ pc = "sleep"
  /\ LET slept == Append(index_log,
                    IndexEvent("sleep", batch_start, << >>, attempt, FALSE))
     IN  IF RetryAllowed(attempt)
         THEN /\ index_log' = slept
              /\ pc' = "upsert"
              /\ UNCHANGED batch_start
         ELSE /\ index_log' = Append(slept,
                    IndexEvent("skip", batch_start, << >>, attempt, FALSE))
              /\ batch_start' = AfterSkip(batch_start)
              /\ pc' = "batch"
  /\ UNCHANGED << points, attempt, stored_points, indexFrame >>

NextIndex == BuildPoints \/ NextBatch \/ FinishIndex \/ Upsert \/ Sleep

SpecIndex == InitIndex /\ [][NextIndex]_vars

\* Every step of index_movies is a step of one sequential call: each upsert
\* answers or raises, each sleep ends.
SpecIndexFair == SpecIndex /\ WF_vars(NextIndex)

\* The upserts recorded for the batch at offset i, in order.
UpsertsOf(i) ==
  SelectSeq(index_log, LAMBDA e : e.kind = "upsert" /\ e.start = i)

\* The offsets of the batches of points.
BatchStarts == { i \in 0..Len(points) : i % batch_size = 0 /\ i < Len(points) }

Skipped(i) == \E k \in 1..Len(index_log) :
                 index_log[k].kind = "skip" /\ index_log[k].start = i
Succeeded(i) == \E k \in 1..Len(index_log) :
                 index_log[k].kind = "upsert" /\ index_log[k].start = i /\ index_log[k].ok

\* ---------------------------------------------------------------- C15
\* C15: during index_movies every batch is sent at most 3 times, nothing is
\* sent for a batch after its first success, a batch whose 3 attempts all
\* failed is skipped without a fourth, and index_movies returns whatever
\* attempts fail.
C15_RetriesBounded ==
  \A i \in BatchStarts :
    LET ups == UpsertsOf(i)
    IN  /\ Len(ups) <= RetryLimit
        /\ \A k \in 1..Len(ups) : ups[k].ok => k = Len(ups)
        /\ Skipped(i) => (Len(ups) = RetryLimit /\ \A k \in 1..Len(ups) : ~ups[k].ok)
        /\ (Len(ups) = RetryLimit /\ ~ups[RetryLimit].ok)
             => Skipped(i) \/ (pc = "sleep" /\ batch_start = i)

C15_IndexReturns == <>(pc = "indexed")

C15_AtMostThreeAttempts == []C15_RetriesBounded /\ C15_IndexReturns

\* index_movies returned after a first batch that failed twice and then
\* went through, and a second batch that failed three times and was skipped.
C15_Witness ==
  /\ pc = "indexed"
  /\ Len(UpsertsOf(0)) = 3
  /\ UpsertsOf(0)[3].ok
  /\ Len(UpsertsOf(batch_size)) = 3
  /\ Skipped(batch_size)

\* ---------------------------------------------------------------- C16
\* C16: a skipped batch does not stop index_movies.  Batches are sent in
\* batch order; a batch is sent only after the batch before it has gone
\* through or been skipped; a call that skipped a batch goes on and, once
\* it has returned, has sent every batch, the ones after the skipped batch
\* included.
C16_SkipDoesNotStop ==
  /\ \A k, l \in 1..Len(index_log) :
       (k < l /\ index_log[k].kind = "upsert" /\ index_log[l].kind = "upsert")
         => index_log[k].start <= index_log[l].start
  /\ \A l \in 1..Len(index_log) :
       (index_log[l].kind = "upsert" /\ index_log[l].start > 0) =>
          \E k \in 1..(l - 1) :
            /\ index_log[k].start = index_log[l].start - batch_size
            /\ \/ index_log[k].kind = "skip"
               \/ index_log[k].kind = "upsert" /\ index_log[k].ok
  /\ (pc # "indexed" /\ \E i \in BatchStarts : Skipped(i)) => ENABLED NextIndex
  /\ pc = "indexed" => \A i \in BatchStarts : UpsertsOf(i) # << >>

\* index_movies returned after its first batch was skipped, its second went
\* through at once and its third went through at the second attempt.
C16_Witness ==
  /\ pc = "indexed"
  /\ Skipped(0)
  /\ Len(UpsertsOf(batch_size)) = 1
  /\ Succeeded(batch_size)
  /\ Len(UpsertsOf(batch_size + batch_size)) = 2
  /\ Succeeded(batch_size + batch_size)

\* ---------------------------------------------------------------- C17
\* C17: the points index_movies builds are the movies with a non-empty
\* plot, each once, in input order, and no movie without plot text; the
\* batches it sends are consecutive slices of these points, each point in
\* exactly one of them, every batch of at most 50 points and every batch
\* but the last of exactly 50.
C17_BatchesPartitionPlotted ==
  (pc # "index") =>
     LET plotted == SelectSeq(movies, LAMBDA m : m.plot # NoneVal /\ m.plot # "")
     IN  /\ Len(points) = Len(plotted)
         /\ \A j \in 1..Len(points) : points[j] = plotted[j].id
         /\ \A k \in 1..Len(index_log) :
              index_log[k].kind = "upsert" =>
                LET b == index_log[k].batch
                    i == index_log[k].start
                IN  /\ i % batch_size = 0
                    /\ Len(b) <= batch_size
                    /\ Len(b) >= 1
                    /\ i + Len(b) < Len(points) => Len(b) = batch_size
                    /\ \A j \in 1..Len(b) : b[j] = points[i + j]
         /\ pc = "indexed" =>
              \A j \in 1..Len(points) :
                Cardinality({ i \in BatchStarts :
                                /\ UpsertsOf(i) # << >>
                                /\ i < j
                                /\ j <= i + Len(UpsertsOf(i)[1].batch) }) = 1

\* Of 101 movies every third had no plot text: the 68 others went out as
\* a batch of 50 and a batch of 18.
C17_Witness ==
  /\ pc = "indexed"
  /\ Len(movies) = 101
  /\ Len(points) = 68
  /\ Len(UpsertsOf(0)) = 1 /\ Len(UpsertsOf(0)[1].batch) = 50
  /\ Len(UpsertsOf(batch_size)) = 1 /\ Len(UpsertsOf(batch_size)[1].batch) = 18

\* --------------------------------------------- SemanticSearch.__init__
MaxStoreOps == 5

\* Ids of the points that are upserted between constructions.
PointIds == {1, 2}

\* A slip of the constructor: the collection is recreated whether or not
\* it exists.
NeedsCreationAlways(exists) == TRUE

\* if QDRANT_COLLECTION not in collections
NeedsCreation(exists) == ~exists

\* An entry of the history of the vector store.
StoreEvent(k, e, c, p) == [kind |-> k, existed |-> e, created |-> c, id |-> p]

\* The vector store before any SemanticSearch is constructed: the
\* collection of the configured name exists already, or not.
InitStore ==
  /\ pc = "store"
  /\ collection_exists \in BOOLEAN
  /\ stored_points = {}
  /\ creations = 0
  /\ constructions = 0
  /\ index_log = << >>
  /\ movies = << >>
  /\ points = << >>
  /\ batch_start = 0
  /\ attempt = 0
  /\ api_key = FALSE
  /\ vector_limit = 1
  /\ graph_limit = 1
  /\ vector_results = << >>
  /\ seen_titles = {}
  /\ combined = << >>
  /\ idx = 1
  /\ result = << >>
  /\ search_calls = 0
  /\ expansions = << >>
  /\ enrich_calls = 0
  /\ enrich_arg = << >>
  /\ provider_answers = << >>
  /\ tmdb_calls = 0
  /\ vector_failed = FALSE
  /\ StableIdle /\ TrendIdle /\ ConcIdle /\ GraphIdle

\* What neither the constructor nor an upsert touches.
storeFrame ==
  << pc, api_key, vector_limit, graph_limit, vector_results, seen_titles,
     combined, idx, result, search_calls, expansions, enrich_calls,
     enrich_arg, provider_answers, tmdb_calls, vector_failed,
     stable_provider, trendVars, reqs, graphVars, movies, points,
     batch_start, attempt >>

\* SemanticSearch(): get_collections, then recreate_collection, which
\* leaves an empty collection, when the configured name is not listed.
Construct ==
  /\ Len(index_log) < MaxStoreOps
  /\ IF NeedsCreation(collection_exists)
     THEN /\ collection_exists' = TRUE
          /\ stored_points' = {}
          /\ creations' = creations + 1
     ELSE UNCHANGED << collection_exists, stored_points, creations >>
  /\ constructions' = constructions + 1
  /\ index_log' = Append(index_log,
        StoreEvent("construct", collection_exists,
                   NeedsCreation(collection_exists), 0))
  /\ UNCHANGED storeFrame

\* Between constructions a constructed SemanticSearch upserts a point.
StoreUpsert ==
  /\ Len(index_log) < MaxStoreOps
  /\ constructions >= 1
  /\ collection_exists
  /\ \E p \in PointIds :
       /\ stored_points' = stored_points \cup {p}
       /\ index_log' = Append(index_log, StoreEvent("upsert", TRUE, FALSE, p))
  /\ UNCHANGED << collection_exists, creations, constructions, storeFrame >>

NextStore == Construct \/ StoreUpsert

SpecStore == InitStore /\ [][NextStore]_vars

\* ---------------------------------------------------------------- C18
\* C18: constructing a SemanticSearch creates the collection exactly when
\* no collection of the configured name exists; an existing collection is
\* neither created nor recreated and keeps its points.  After any number
\* of constructions the collection exists and every point upserted between
\* constructions is still in it.
C18_ConstructionStep ==
  (constructions' = constructions + 1) =>
     /\ collection_exists'
     /\ collection_exists =>
          /\ creations' = creations
          /\ stored_points' = stored_points
     /\ ~collection_exists => creations' = creations + 1

C18_AfterConstructions ==
  (constructions >= 1) =>
     /\ collection_exists
     /\ \A k \in 1..Len(index_log) :
          index_log[k].kind = "upsert" => index_log[k].id \in stored_points

C18_ProvisioningIdempotent ==
  [][C18_ConstructionStep]_vars /\ []C18_AfterConstructions

\* Three constructions with an upsert after the first and after the second:
\* the first created the collection, the others found it, and both points are
\* in it.
C18_Witness ==
  /\ constructions = 3
  /\ creations = 1
  /\ Len(index_log) = 5
  /\ index_log[1].kind = "construct" /\ index_log[1].created
  /\ index_log[2].kind = "upsert"
  /\ index_log[3].kind = "construct" /\ ~index_log[3].created
  /\ index_log[4].kind = "upsert"
  /\ index_log[5].kind = "construct" /\ ~index_log[5].created
  /\ stored_points = PointIds

\* ---------------------------------- recommend calls on one Recommender
MaxRequestSeeds == 1

\* The recommend calls in flight on the Recommender of app_state.
Requests == {1, 2}

\* The hits the searches of these calls can return.
RequestHits == { h \in Hits : h.score # 87004 \/ h.title = "Interstellar" }

\* The local variables of a recommend call that has not started, and what
\* it will have received from the services: hits, resps, world.
FreshRequest ==
  [pc |-> "start", vector_results |-> << >>, seen_titles |-> {},
   combined |-> << >>, idx |-> 1, result |-> << >>,
   hits |-> << >>, resps |-> << >>, world |-> "A"]

\* A slip of recommend: seen_titles is kept on the Recommender, one set for
\* all calls.
SeenByShared(rs, r) == UNION { rs[q].seen_titles : q \in DOMAIN rs }

\* seen_titles as the expansion loop of call r reads it: a local of the call.
SeenBy(rs, r) == rs[r].seen_titles

\* recommend run alone: the list it returns when the search answers hits,
\* the traversal of the k-th vector result answers resps[k] and the
\* provider is world.
RECURSIVE ExpandAll(_, _, _, _)
ExpandAll(vr, resps, k, m) ==
  IF k > Len(vr) THEN m
  ELSE ExpandAll(vr, resps, k + 1,
         IF IsSeed(vr[k])
         THEN Merge(m.seen, m.combined, ExpandViaNeo4j(resps[k]))
         ELSE m)

RecommendAlone(key, hits, resps, world) ==
  LET vr == SearchQdrant(hits)
  IN  IF NoSeeds(vr) THEN << >>
      ELSE LET m == ExpandAll(vr, resps, 1, Merge({}, << >>, vr))
           IN  EnrichMovies(key, m.combined, AnswersOf(world, m.combined))

\* A Recommender has been constructed and two recommend calls arrive.
InitRequests ==
  /\ pc = "serving"
  /\ api_key \in BOOLEAN
  /\ reqs = [r \in Requests |-> FreshRequest]
  /\ vector_limit = MaxRequestSeeds
  /\ graph_limit = 1
  /\ vector_results = << >>
  /\ seen_titles = {}
  /\ combined = << >>
  /\ idx = 1
  /\ result = << >>
  /\ search_calls = 0
  /\ expansions = << >>
  /\ enrich_calls = 0
  /\ enrich_arg = << >>
  /\ provider_answers = << >>
  /\ tmdb_calls = 0
  /\ vector_failed = FALSE
  /\ StableIdle /\ TrendIdle /\ IndexIdle /\ StoreIdle /\ GraphIdle

\* What the calls leave alone: the Recommender's services and settings.
requestFrame ==
  << pc, api_key, vector_limit, graph_limit, vector_results, seen_titles,
     combined, idx, result, search_calls, expansions, enrich_calls,
     enrich_arg, provider_answers, tmdb_calls, vector_failed,
     stable_provider, trendVars, indexVars, storeVars, graphVars >>

\* Call r, steps 1 and 2: its vector search answers.
RequestSearch(r) ==
  /\ reqs[r].pc = "start"
  /\ \E hits \in InjSeqsUpTo(RequestHits, vector_limit) :
       LET vr == SearchQdrant(hits)
           m == Merge({}, << >>, vr)
       IN  reqs' = [reqs EXCEPT ![r] =
             IF NoSeeds(vr)
             THEN [@ EXCEPT !.pc = "done", !.hits = hits, !.vector_results = vr]
             ELSE [@ EXCEPT !.pc = "expand", !.hits = hits, !.vector_results = vr,
                            !.seen_titles = m.seen, !.combined = m.combined]]
  /\ UNCHANGED requestFrame

\* Call r, step 1: its vector search raises, and so does the call.
RequestSearchRaises(r) ==
  /\ reqs[r].pc = "start"
  /\ reqs' = [reqs EXCEPT ![r].pc = "raised"]
  /\ UNCHANGED requestFrame

\* Call r, step 3: one turn of its loop over vector_results.
RequestExpand(r) ==
  /\ reqs[r].pc = "expand"
  /\ reqs[r].idx <= Len(reqs[r].vector_results)
  /\ \E resp \in GraphResponses(graph_limit) :
       LET vector_movie == reqs[r].vector_results[reqs[r].idx]
           m == Merge(SeenBy(reqs, r), reqs[r].combined, ExpandViaNeo4j(resp))
       IN  /\ ~IsSeed(vector_movie) => resp = [raised |-> FALSE, rows |-> << >>]
           /\ reqs' = [reqs EXCEPT ![r] =
                IF IsSeed(vector_movie)
                THEN [@ EXCEPT !.idx = @ + 1, !.resps = Append(@, resp),
                               !.seen_titles = m.seen, !.combined = m.combined]
                ELSE [@ EXCEPT !.idx = @ + 1, !.resps = Append(@, resp)]]
  /\ UNCHANGED requestFrame

\* Call r, step 4 and the return.
RequestEnrich(r) ==
  /\ reqs[r].pc = "expand"
  /\ reqs[r].idx > Len(reqs[r].vector_results)
  /\ \E w \in Providers :
       LET enriched_results ==
             EnrichMovies(api_key, reqs[r].combined, AnswersOf(w, reqs[r].combined))
       IN  reqs' = [reqs EXCEPT ![r] =
             [@ EXCEPT !.pc = "done", !.world = w,
                       !.combined = enriched_results, !.result = enriched_results]]
  /\ UNCHANGED requestFrame

NextRequests ==
  \E r \in Requests :
    \/ RequestSearch(r)
    \/ RequestSearchRaises(r)
    \/ RequestExpand(r)
    \/ RequestEnrich(r)

SpecRequests == InitRequests /\ [][NextRequests]_vars

\* ---------------------------------------------------------------- C19
\* C19: recommend calls on one Recommender share no pipeline state.
\* However their external calls interleave, each call returns the list it
\* would return alone with the answers it received, and two calls that
\* received the same answers return the same list.
C19_RequestsIndependent ==
  /\ \A r \in Requests :
       reqs[r].pc = "done" =>
         reqs[r].result =
           RecommendAlone(api_key, reqs[r].hits, reqs[r].resps, reqs[r].world)
  /\ \A r, q \in Requests :
       ( /\ reqs[r].pc = "done" /\ reqs[q].pc = "done"
         /\ reqs[r].hits = reqs[q].hits
         /\ reqs[r].resps = reqs[q].resps
         /\ reqs[r].world = reqs[q].world )
         => reqs[r].result = reqs[q].result

\* Both calls returned, with different seeds; the traversal of each had
\* found Tenet and each returned it as its second candidate.
C19_Witness ==
  /\ reqs[1].pc = "done" /\ reqs[2].pc = "done"
  /\ reqs[1].hits # reqs[2].hits
  /\ Len(reqs[1].result) = 2 /\ Len(reqs[2].result) = 2
  /\ reqs[1].result[1].title = "Inception"
  /\ reqs[2].result[1].title = "Interstellar"
  /\ reqs[1].result[2].title = "Tenet" /\ reqs[2].result[2].title = "Tenet"

\* ------------------------------------- _expand_via_neo4j on a real graph
\* A Movie node with what its DIRECTED_BY, ACTED_IN and HAS_GENRE edges
\* lead to.
Node(t, g, y, d, c) ==
  [title |-> t, genre |-> g, year |-> y, director |-> d, cast |-> c]

\* The graphs the traversal runs on: three movies, directed by either of
\* two directors, one of them with either of two genres and casts.
Graphs ==
  { << Node("Inception", "Sci-Fi", "2010", d1, {"DiCaprio"}),
       Node("Tenet", "Action", "2020", d2, {"Washington"}),
       Node("Dune", g3, "2021", d3, c3) >> :
      d1 \in {"Nolan", "Villeneuve"}, d2 \in {"Nolan", "Villeneuve"},
      d3 \in {"Nolan", "Villeneuve"}, g3 \in {"Sci-Fi", "Drama"},
      c3 \in {{"DiCaprio"}, {"Chalamet"}} }

\* The text of the query: three parts joined by UNION at the top level.
\* Per part, the variables it binds before its subquery imports them with
\* WITH, the variables the subquery imports, and whether the part ends
\* with a RETURN clause.  The MATCH that binds m stands in the first part
\* only, and the one RETURN clause of the query in the last.
QueryParts ==
  << [binds |-> {"m"}, imports |-> {"m"}, ends_with_return |-> FALSE],
     [binds |-> {}, imports |-> {"m"}, ends_with_return |-> FALSE],
     [binds |-> {}, imports |-> {"m"}, ends_with_return |-> TRUE] >>

\* Cypher compiles a UNION only if each part is a query of its own: it
\* ends with RETURN and imports no variable it has not bound.
QueryCompiles ==
  \A k \in 1..Len(QueryParts) :
    /\ QueryParts[k].ends_with_return
    /\ QueryParts[k].imports \subseteq QueryParts[k].binds

\* session.run(query, title, limit) against Neo4j: a query that does not
\* compile raises; one that compiles answers at most limit rows or fails
\* on the way.
SessionRun(limit) ==
  IF QueryCompiles THEN GraphResponses(limit)
  ELSE { [raised |-> TRUE, rows |-> << >>] }

\* A Recommender has been constructed over a graph and _expand_via_neo4j
\* is about to run for a title.
InitGraph ==
  /\ pc = "traverse"
  /\ graph \in Graphs
  /\ seed_title \in {"Inception", "Tenet", "Dune", "Heat"}
  /\ graph_limit \in 1..MaxGraph
  /\ api_key = FALSE
  /\ vector_limit = 1
  /\ vector_results = << >>
  /\ seen_titles = {}
  /\ combined = << >>
  /\ idx = 1
  /\ result = << >>
  /\ search_calls = 0
  /\ expansions = << >>
  /\ enrich_calls = 0
  /\ enrich_arg = << >>
  /\ provider_answers = << >>
  /\ tmdb_calls = 0
  /\ vector_failed = FALSE
  /\ StableIdle /\ TrendIdle /\ IndexIdle /\ StoreIdle /\ ConcIdle

\* One call _expand_via_neo4j(seed_title, graph_limit).
Traverse ==
  /\ pc = "traverse"
  /\ \E resp \in SessionRun(graph_limit) :
       LET graph_results == ExpandViaNeo4j(resp)
       IN  /\ result' = graph_results
           /\ expansions' = Append(expansions,
                [called |-> TRUE, title |-> seed_title, limit |-> graph_limit,
                 raised |-> resp.raised, graph_results |-> graph_results])
  /\ pc' = "done"
  /\ UNCHANGED << api_key, vector_limit, graph_limit, vector_results,
                  seen_titles, combined, idx, search_calls, enrich_calls,
                  enrich_arg, provider_answers, tmdb_calls, vector_failed,
                  extVars >>

NextGraph == Traverse

SpecGraph == InitGraph /\ [][NextGraph]_vars

\* The movies of the graph that share a director, a cast member or a
\* genre with a movie of the seed title, as rows.
SharesWithSeed(n, m) ==
  \/ n.director = m.director
  \/ n.cast \cap m.cast # {}
  \/ n.genre = m.genre

RelatedRows ==
  { Row(graph[j].title, graph[j].genre, graph[j].year) :
      j \in { j \in 1..Len(graph) :
                \E i \in 1..Len(graph) :
                  /\ graph[i].title = seed_title
                  /\ i # j
                  /\ SharesWithSeed(graph[j], graph[i]) } }

\* ---------------------------------------------------------------- C20
\* C20: for any graph, the traversal for a seed title returns the movies
\* that share a director, a cast member or a genre with the seed, all of
\* them up to graph_limit, none twice and never the seed itself.
\* The query does not compile, so every traversal returns [].
C20_TraversalReturnsRelated ==
  (pc = "done") =>
     /\ \A i \in 1..Len(result) :
          /\ Row(result[i].title, result[i].genre, result[i].year) \in RelatedRows
          /\ result[i].title # seed_title
     /\ \A i, j \in 1..Len(result) : result[i] = result[j] => i = j
     /\ Len(result) <= graph_limit
     /\ Len(result) = IF Cardinality(RelatedRows) < graph_limit
                      THEN Cardinality(RelatedRows) ELSE graph_limit

\* The traversal for Inception, in a graph where Tenet has the director of
\* Inception and Dune its genre and a cast member, raised and returned [].
C20_Witness ==
  /\ pc = "done"
  /\ seed_title = "Inception"
  /\ Cardinality(RelatedRows) = 2
  /\ expansions[1].raised
  /\ result = << >>

\* The sleeps recorded for the batch at offset i, in order.
SleepsOf(i) ==
  SelectSeq(index_log, LAMBDA e : e.kind = "sleep" /\ e.start = i)

\* ---------------------------------------------------------------- C21
\* C21: in index_movies a wait occurs only between two attempts of one
\* batch: every sleep is followed at once by another upsert of the same
\* batch, a batch whose 3 attempts all fail waits twice, and a batch that
\* goes through at its first attempt does not wait.
\* The code sleeps after every failed attempt, the third included, and
\* then skips the batch.
C21_WaitOnlyBetweenAttempts ==
  /\ \A k \in 1..Len(index_log) :
       index_log[k].kind = "sleep" =>
         IF k < Len(index_log)
         THEN /\ index_log[k + 1].kind = "upsert"
              /\ index_log[k + 1].start = index_log[k].start
         ELSE pc = "upsert" /\ batch_start = index_log[k].start
  /\ \A i \in BatchStarts :
       /\ Skipped(i) => Len(SleepsOf(i)) = RetryLimit - 1
       /\ (UpsertsOf(i) # << >> /\ UpsertsOf(i)[1].ok) => SleepsOf(i) = << >>

\* The first batch failed three times: index_movies slept a third time
\* after the last failure and then skipped the batch.
C21_Witness ==
  /\ Skipped(0)
  /\ Len(UpsertsOf(0)) = 3
  /\ Len(SleepsOf(0)) = 3
  /\ index_log[6].kind = "sleep"
  /\ index_log[7].kind = "skip"

\* ---------------------------------------------------------------- C22
\* C22: enrich_movies changes no field of a candidate but poster_url and
\* imdb_url: title, genre, director, year, score and source of the i-th
\* candidate returned are those of the i-th candidate received, whether the
\* provider matched, found nothing or failed; so the list recommend returns
\* has the titles, scores and sources of the list it handed to
\* enrich_movies.
C22_EnrichKeepsOtherFields ==
  (Returned /\ enrich_calls = 1) =>
     /\ Len(result) = Len(enrich_arg)
     /\ \A i \in 1..Len(result) :
          /\ result[i].title = enrich_arg[i].title
          /\ result[i].genre = enrich_arg[i].genre
          /\ result[i].director = enrich_arg[i].director
          /\ result[i].year = enrich_arg[i].year
          /\ result[i].score = enrich_arg[i].score
          /\ result[i].source = enrich_arg[i].source

\* With a key a recommend call returned a vector and a graph candidate: the
\* provider matched the first, which got its poster, and failed on the
\* second, which got none.
C22_Witness ==
  /\ Returned
  /\ api_key
  /\ search_calls = 1
  /\ enrich_calls = 1
  /\ Len(result) = 2
  /\ result[1].source = "vector" /\ result[2].source = "graph"
  /\ provider_answers[1].status = "match"
  /\ provider_answers[2].status # "match"
  /\ enrich_arg[1].poster_url = Absent
  /\ result[1].poster_url = PosterUrl(provider_answers[1].poster_path)
  /\ result[2].poster_url = NoneVal

\* ---------------------------------------------------------------- C23
\* C23: recommend never returns a candidate whose title is missing, None
\* or empty: no such vector hit and no such graph row enters combined, and
\* no traversal is issued for a vector result without a usable title.
C23_NoTitlelessCandidates ==
  /\ \A i \in 1..Len(combined) : combined[i].title \notin {NoneVal, "", Absent}
  /\ Returned => \A i \in 1..Len(result) : result[i].title \notin {NoneVal, "", Absent}
  /\ \A k \in 1..Len(expansions) :
       /\ expansions[k].called => expansions[k].title \notin {NoneVal, "", Absent}
       /\ vector_results[k].title \in {NoneVal, "", Absent} => ~expansions[k].called

\* A call returned after its search had answered a hit without title next
\* to a titled one and the traversal of the titled one had answered a row
\* with an empty title next to a titled one: two candidates came back,
\* no traversal was issued for the hit without title.
C23_Witness ==
  /\ Returned
  /\ Len(vector_results) = 2
  /\ vector_results[1].title = NoneVal
  /\ ~expansions[1].called
  /\ expansions[2].called
  /\ Len(expansions[2].graph_results) = 2
  /\ \E j \in 1..2 : expansions[2].graph_results[j].title = ""
  /\ Len(result) = 2
  /\ result[1].source = "vector" /\ result[2].source = "graph"

====
